---- MODULE Spec2Model ----
(***************************************************************************)
(* A model of the fltk-rs binding layer: the MenuItem accessors of         *)
(* src/src/menu.rs over the native Fl_Menu_Item record, and the widget     *)
(* capability traits of src/src/prelude.rs as the example programs of      *)
(* src/fltk/examples use them.                                             *)
(***************************************************************************)
EXTENDS Integers, Sequences, FiniteSets, TLC

VARIABLES
    item,       \* the native Fl_Menu_Item record a MenuItem's _inner points to
    flags0,     \* the flags the item was created with
    valOp,      \* the most recent of set / clear ("none" before either)
    visOp,      \* the most recent of show / hide ("none" before either)
    mlast,      \* the most recent MenuItem call and its argument
    app,        \* the process-wide toolkit state: initialized, event loop
    runResult,  \* what the most recent returned App::run call returned
    panicked,   \* the process has panicked
    callback,   \* each button's registered closure
    counter,    \* the counter captured by the counting closure
    calls,      \* do_callback calls made on a widget holding that closure
    frameLabel, \* the label of the frame of hello_button
    wizards,    \* the native wizard objects, by address
    wiz,        \* the handle `wiz` of show_wizard
    wiz_c,      \* the handle `wiz_c` captured by the "next" closure
    wizOps,     \* the "next" / "previous" triggers fired so far
    alast,      \* the most recent application call
    geom,       \* the geometry of the widget under construction
    glast,      \* the most recent builder calls on it
    heap,       \* the string allocations, by address
    handles,    \* the MenuItem values made for the item (the first, its clones)
    held,       \* the addresses owned by the Strings label() has returned
    tlast       \* the most recent label / set_label / clone / drop call

titleVars == <<heap, handles, held, tlast>>

menuVars == <<item, flags0, valOp, visOp, mlast, titleVars>>

appVars == <<app, runResult, panicked, callback, counter, calls, frameLabel,
             wizards, wiz, wiz_c, wizOps, alast>>

geomVars == <<geom, glast>>

vars == <<menuVars, appVars, geomVars>>

(***************************************************************************)
(* Enumerations.  Font, Color and the label types live in enums.rs; their  *)
(* variants are given here by name with their integer discriminants.       *)
(***************************************************************************)
Font == {"Helvetica", "HelveticaBold", "Courier", "Times", "Symbol", "Zapfdingbats"}

FontDiscriminant(f) ==
    CASE f = "Helvetica"     -> 0
      [] f = "HelveticaBold" -> 1
      [] f = "Courier"       -> 4
      [] f = "Times"         -> 8
      [] f = "Symbol"        -> 12
      [] f = "Zapfdingbats"  -> 15

Color == {"ForeGround", "BackGround", "Inactive", "Selection", "Black", "Red", "White"}

ColorDiscriminant(c) ==
    CASE c = "ForeGround" -> 0
      [] c = "BackGround" -> 7
      [] c = "Inactive"   -> 8
      [] c = "Selection"  -> 15
      [] c = "Black"      -> 56
      [] c = "Red"        -> 88
      [] c = "White"      -> 255

LabelType == {"Normal", "None", "Shadow", "Engraved", "Embossed"}

LabelTypeDiscriminant(t) ==
    CASE t = "Normal"   -> 0
      [] t = "None"     -> 1
      [] t = "Shadow"   -> 2
      [] t = "Engraved" -> 3
      [] t = "Embossed" -> 4

\* What a read of an enum holding no variant's discriminant may yield: any
\* variant, or a value that is none of them.
Invalid == "Invalid"

\* `font as i32`
font_as_i32(f) == FontDiscriminant(f)

\* `color as i32`
color_as_i32(c) == ColorDiscriminant(c)

\* mem::transmute::<_, Font>(n): the variant whose discriminant is n; for an n
\* that is no variant's discriminant the result is undefined.
transmute_Font(n) ==
    IF \E f \in Font : FontDiscriminant(f) = n
    THEN {f \in Font : FontDiscriminant(f) = n}
    ELSE Font \cup {Invalid}

\* mem::transmute::<_, Color>(n)
transmute_Color(n) ==
    IF \E c \in Color : ColorDiscriminant(c) = n
    THEN {c \in Color : ColorDiscriminant(c) = n}
    ELSE Color \cup {Invalid}

\* T::to_int() / T::from_i32() of a label type
to_int(t) == LabelTypeDiscriminant(t)

from_i32(n) ==
    IF \E t \in LabelType : LabelTypeDiscriminant(t) = n
    THEN {t \in LabelType : LabelTypeDiscriminant(t) = n}
    ELSE LabelType \cup {Invalid}

(***************************************************************************)
(* Machine integers.  A usize is four 16-bit limbs and an i32 two, least   *)
(* significant first, so that narrowing and widening are computed on the   *)
(* bits.                                                                   *)
(***************************************************************************)
Limb == 65536

SignLimb == 32768

Usize(n) == <<n % Limb, n \div Limb, 0, 0>>

\* usize values offered to set_label_size: 0, 1, 255, i32::MAX, 2^31, 2^32,
\* 2^32 + 255
SizeInputs ==
    { Usize(0), Usize(1), Usize(255), Usize(2147483647),
      <<0, SignLimb, 0, 0>>, <<0, 0, 1, 0>>, <<255, 0, 1, 0>> }

\* `sz as i8 as i32`: a narrowing to the wrong width
usize_as_i32_narrow8(sz) ==
    LET b == sz[1] % 256
    IN  IF b >= 128 THEN <<(Limb - 256) + b, Limb - 1>> ELSE <<b, 0>>

\* `sz as i32`: the low 32 bits
usize_as_i32(sz) == <<sz[1], sz[2]>>

\* `v as usize` of an i32: sign extension to 64 bits
i32_as_usize(v) ==
    IF v[2] >= SignLimb THEN <<v[1], v[2], Limb - 1, Limb - 1>>
                        ELSE <<v[1], v[2], 0, 0>>

(***************************************************************************)
(* MenuFlag, and the native item's bit operations on its flags.            *)
(***************************************************************************)
MenuFlag ==
    [ Normal |-> 0, Inactive |-> 1, Toggle |-> 2, Value |-> 4, Radio |-> 8,
      Invisible |-> 16, SubmenuPointer |-> 32, Submenu |-> 64,
      MenuDivider |-> 128, MenuHorizontal |-> 256 ]

RECURSIVE SumOf(_)
SumOf(S) == IF S = {} THEN 0 ELSE LET b == CHOOSE x \in S : TRUE IN b + SumOf(S \ {b})

\* Every combination of MenuFlag bits
FlagCombinations == { SumOf(S) : S \in SUBSET { MenuFlag[n] : n \in DOMAIN MenuFlag } }

\* flags & bit (bit a power of two)
BitAnd(flags, bit) == IF (flags \div bit) % 2 = 1 THEN bit ELSE 0

\* flags | bit
BitOr(flags, bit) == flags + (bit - BitAnd(flags, bit))

\* flags & ~bit
BitClear(flags, bit) == flags - BitAnd(flags, bit)

(***************************************************************************)
(* The native menu item (Fl_Menu_Item behind the fltk_sys::menu functions).*)
(***************************************************************************)
NewItem(flags) ==
    [ text |-> 1, flags |-> flags, labeltype |-> 0, labelfont |-> 0,
      labelsize |-> <<0, 0>>, labelcolor |-> 0 ]

Fl_Menu_Item_label(it) == it.text
Fl_Menu_Item_set_label(it, p) == [it EXCEPT !.text = p]

Fl_Menu_Item_label_type(it) == it.labeltype
Fl_Menu_Item_set_label_type(it, a) == [it EXCEPT !.labeltype = a]
Fl_Menu_Item_label_color(it) == it.labelcolor
Fl_Menu_Item_set_label_color(it, a) == [it EXCEPT !.labelcolor = a]
Fl_Menu_Item_label_font(it) == it.labelfont
Fl_Menu_Item_set_label_font(it, a) == [it EXCEPT !.labelfont = a]
Fl_Menu_Item_label_size(it) == it.labelsize
Fl_Menu_Item_set_label_size(it, a) == [it EXCEPT !.labelsize = a]
Fl_Menu_Item_value(it) == BitAnd(it.flags, MenuFlag.Value)
Fl_Menu_Item_set(it) == [it EXCEPT !.flags = BitOr(@, MenuFlag.Value)]
Fl_Menu_Item_clear(it) == [it EXCEPT !.flags = BitClear(@, MenuFlag.Value)]
Fl_Menu_Item_visible(it) == IF BitAnd(it.flags, MenuFlag.Invisible) = 0 THEN 1 ELSE 0
Fl_Menu_Item_show(it) == [it EXCEPT !.flags = BitClear(@, MenuFlag.Invisible)]
Fl_Menu_Item_hide(it) == [it EXCEPT !.flags = BitOr(@, MenuFlag.Invisible)]
Fl_Menu_Item_activate(it) == [it EXCEPT !.flags = BitClear(@, MenuFlag.Inactive)]
Fl_Menu_Item_deactivate(it) == [it EXCEPT !.flags = BitOr(@, MenuFlag.Inactive)]

(***************************************************************************)
(* impl MenuItem: the getters give the set of values the call may return   *)
(* (one value, unless the read is undefined).                              *)
(***************************************************************************)
label_type(it) == from_i32(Fl_Menu_Item_label_type(it))

label_color(it) == transmute_Color(Fl_Menu_Item_label_color(it))

label_font(it) == transmute_Font(Fl_Menu_Item_label_font(it))

label_size(it) == i32_as_usize(Fl_Menu_Item_label_size(it))

\* match Fl_Menu_Item_value(..) { 1 => true, _ => false }
value_match_one(it) == Fl_Menu_Item_value(it) = 1

value(it) == Fl_Menu_Item_value(it) # 0

visible(it) == Fl_Menu_Item_visible(it) # 0

FlagsUnchanged == UNCHANGED <<flags0, valOp, visOp, appVars, geomVars, titleVars>>

set_label_type(typ) ==
    /\ item' = Fl_Menu_Item_set_label_type(item, to_int(typ))
    /\ mlast' = [op |-> "set_label_type", arg |-> typ, before |-> item]
    /\ FlagsUnchanged

\* set_label_color storing into the font field
set_label_color_wrong_field(color) ==
    /\ item' = Fl_Menu_Item_set_label_font(item, color_as_i32(color))
    /\ mlast' = [op |-> "set_label_color", arg |-> color, before |-> item]
    /\ FlagsUnchanged

set_label_color(color) ==
    /\ item' = Fl_Menu_Item_set_label_color(item, color_as_i32(color))
    /\ mlast' = [op |-> "set_label_color", arg |-> color, before |-> item]
    /\ FlagsUnchanged

set_label_font(font) ==
    /\ item' = Fl_Menu_Item_set_label_color(item, font_as_i32(font))
    /\ mlast' = [op |-> "set_label_font", arg |-> font, before |-> item]
    /\ FlagsUnchanged

set_label_size(sz) ==
    /\ item' = Fl_Menu_Item_set_label_size(item, usize_as_i32(sz))
    /\ mlast' = [op |-> "set_label_size", arg |-> sz, before |-> item]
    /\ FlagsUnchanged

set ==
    /\ item' = Fl_Menu_Item_set(item)
    /\ valOp' = "set"
    /\ mlast' = [op |-> "set", arg |-> item]
    /\ UNCHANGED <<flags0, visOp, appVars, geomVars, titleVars>>

clear ==
    /\ item' = Fl_Menu_Item_clear(item)
    /\ valOp' = "clear"
    /\ mlast' = [op |-> "clear", arg |-> item]
    /\ UNCHANGED <<flags0, visOp, appVars, geomVars, titleVars>>

active ==
    /\ item' = Fl_Menu_Item_activate(item)
    /\ mlast' = [op |-> "active", arg |-> item]
    /\ FlagsUnchanged

activate ==
    /\ item' = Fl_Menu_Item_activate(item)
    /\ mlast' = [op |-> "activate", arg |-> item]
    /\ FlagsUnchanged

deactivate ==
    /\ item' = Fl_Menu_Item_deactivate(item)
    /\ mlast' = [op |-> "deactivate", arg |-> item]
    /\ FlagsUnchanged

show ==
    /\ item' = Fl_Menu_Item_show(item)
    /\ visOp' = "show"
    /\ mlast' = [op |-> "show", arg |-> item]
    /\ UNCHANGED <<flags0, valOp, appVars, geomVars, titleVars>>

hide ==
    /\ item' = Fl_Menu_Item_hide(item)
    /\ visOp' = "hide"
    /\ mlast' = [op |-> "hide", arg |-> item]
    /\ UNCHANGED <<flags0, valOp, appVars, geomVars, titleVars>>

(***************************************************************************)
(* Errors (prelude.rs).                                                    *)
(***************************************************************************)
FltkErrorKind == {"FailedToRun", "FailedToLock", "FailedToSetScheme", "ResourceNotFound"}

\* FltkError::Internal(kind)
Internal(kind) == [tag |-> "Internal", kind |-> kind]

as_str(kind) ==
    CASE kind = "FailedToRun"       -> "Failed to run FLTK!"
      [] kind = "FailedToLock"      -> "Failed to initialize app for multithreading!"
      [] kind = "FailedToSetScheme" -> "Failed to set scheme"
      [] kind = "ResourceNotFound"  -> "Resource Not Found!"

\* Error::description of an Internal error
description(err) == as_str(err.kind)

\* Result<(), FltkError>
Ok == [tag |-> "Ok"]

Err(e) == [tag |-> "Err", err |-> e]

\* No run call has returned yet.
NoResult == [tag |-> "none"]

(***************************************************************************)
(* The process-wide toolkit state and the event loop.                      *)
(***************************************************************************)
NewApp == [init |-> FALSE, loop |-> "idle"]

\* App::default()
App_default(a) == [a EXCEPT !.init = TRUE]

\* App::run aborting the process where it cannot start the loop
App_run_aborts(a) ==
    IF ~a.init \/ a.loop # "idle"
    THEN [app |-> a, ret |-> NoResult, abort |-> TRUE]
    ELSE [app |-> [a EXCEPT !.loop = "running"], ret |-> NoResult, abort |-> FALSE]

\* App::run: the loop starts once, after initialization; any other call
\* returns the FailedToRun error at once.  A call that starts the loop returns
\* when the loop ends (LoopEnds).
App_run(a) ==
    IF ~a.init \/ a.loop # "idle"
    THEN [app |-> a, ret |-> Err(Internal("FailedToRun")), abort |-> FALSE]
    ELSE [app |-> [a EXCEPT !.loop = "running"], ret |-> NoResult, abort |-> FALSE]

\* Result::unwrap: panics on Err
unwrap_panics(ret) == ret.tag = "Err"

(***************************************************************************)
(* The wizard container (two pages: grp1, grp2), its handles and clone.    *)
(***************************************************************************)
WizardPages == 2

\* group::Wizard::default() with its pages added: the first page is shown.
NewWizard == [visible |-> [i \in 1..WizardPages |-> i = 1]]

\* The pages of a wizard that are visible, and the first of them (1-based).
VisiblePages(wz) == {i \in 1..Len(wz.visible) : wz.visible[i]}

FirstVisible(wz) == CHOOSE i \in VisiblePages(wz) : \A j \in VisiblePages(wz) : i <= j

\* Show page k, hide every other page.
Fl_Wizard_set_value(wz, k) == [wz EXCEPT !.visible = [i \in 1..Len(@) |-> i = k]]

Fl_Wizard_next(wz) ==
    LET k == FirstVisible(wz)
    IN  IF k < Len(wz.visible) THEN Fl_Wizard_set_value(wz, k + 1) ELSE wz

Fl_Wizard_prev(wz) ==
    LET k == FirstVisible(wz)
    IN  IF k > 1 THEN Fl_Wizard_set_value(wz, k - 1) ELSE wz

NoHandle == [_inner |-> 0]

\* A clone that allocates a copy of the native object
Clone_deep(h, natives) ==
    [handle |-> [_inner |-> Len(natives) + 1],
     natives |-> Append(natives, natives[h._inner])]

\* #[derive(Clone)] on a struct holding `_inner: *mut ...`: the pointer is
\* copied, the native objects are left as they are.
Clone(h, natives) == [handle |-> [_inner |-> h._inner], natives |-> natives]

\* Wizard::next / Wizard::prev through a handle
next(h, natives) == [natives EXCEPT ![h._inner] = Fl_Wizard_next(@)]

prev(h, natives) == [natives EXCEPT ![h._inner] = Fl_Wizard_prev(@)]

\* The 0-indexed active child read through a handle
ActiveChild(h) == FirstVisible(wizards[h._inner]) - 1

(***************************************************************************)
(* Callbacks.  A closure acts on the part of the state it captured.        *)
(***************************************************************************)
Buttons == {"hello.but", "wizard.but", "wizard.but2"}

\* The closures each button is given: hello_button.rs:12, wizard.rs:23-27,
\* and a closure incrementing a captured counter.
Registrations ==
    { <<"hello.but", "Hello">>, <<"hello.but", "Count">>,
      <<"wizard.but", "Next">>, <<"wizard.but2", "Prev">> }

Captured == [frameLabel |-> frameLabel, counter |-> counter, wizards |-> wizards]

\* Frame::set_label
set_label(st, title) == [st EXCEPT !.frameLabel = title]

\* move || frame.set_label("Hello world") with a different text
closure_hello_other_text(st) == set_label(st, "Hello")

\* move || frame.set_label("Hello world")
closure_hello(st) == set_label(st, "Hello world")

\* move || wiz_c.prev() in place of next()
closure_next_calls_prev(st) == [st EXCEPT !.wizards = prev(wiz_c, @)]

\* move || wiz_c.next()
closure_next(st) == [st EXCEPT !.wizards = next(wiz_c, @)]

\* move || wiz.prev()
closure_prev(st) == [st EXCEPT !.wizards = prev(wiz, @)]

\* || counter += 1
closure_count(st) == [st EXCEPT !.counter = @ + 1]

CallClosure(c, st) ==
    CASE c = "none"  -> st
      [] c = "Hello" -> closure_hello(st)
      [] c = "Next"  -> closure_next(st)
      [] c = "Prev"  -> closure_prev(st)
      [] c = "Count" -> closure_count(st)

\* do_callback invoking the closure twice
Fl_Widget_do_callback_twice(c, st) == CallClosure(c, CallClosure(c, st))

\* Fl_Widget::do_callback: the registered closure runs once, before the call
\* returns.
Fl_Widget_do_callback(c, st) == CallClosure(c, st)

\* The calls of the application, as alast records them.
ACall(op, w, c) ==
    [op |-> op, w |-> w, closure |-> c, counter0 |-> counter,
     label0 |-> frameLabel, app0 |-> app]

MaxCalls == 3

MaxWizOps == 3

\* The trigger a button stands for in the wizard ("next" / "previous").
TriggerOf(w) ==
    CASE w = "wizard.but"  -> <<"next">>
      [] w = "wizard.but2" -> <<"prev">>
      [] OTHER             -> <<>>

Dispatch(op, w) ==
    LET c  == callback[w]
        st == Fl_Widget_do_callback(c, Captured)
    IN  /\ ~panicked
        /\ c = "Count" => calls < MaxCalls
        /\ c \in {"Next", "Prev"} => Len(wizOps) < MaxWizOps
        /\ frameLabel' = st.frameLabel
        /\ counter' = st.counter
        /\ wizards' = st.wizards
        /\ calls' = IF c = "Count" THEN calls + 1 ELSE calls
        /\ wizOps' = IF c = "none" THEN wizOps ELSE wizOps \o TriggerOf(w)
        /\ alast' = ACall(op, w, c)
        /\ UNCHANGED <<app, runResult, panicked, callback, wiz, wiz_c>>

\* WidgetTrait::do_callback: called by the program
do_callback(w) == Dispatch("do_callback", w)

\* The event loop firing a button's trigger
trigger(w) == app.loop = "running" /\ Dispatch("trigger", w)

\* WidgetTrait::set_callback; the "next" closure captures a clone of wiz.
set_callback(w, c) ==
    LET cl == Clone(wiz, wizards)
    IN  /\ ~panicked
        /\ callback' = [callback EXCEPT ![w] = c]
        /\ IF c = "Next"
           THEN wiz_c' = cl.handle /\ wizards' = cl.natives
           ELSE UNCHANGED <<wiz_c, wizards>>
        /\ alast' = ACall("set_callback", w, c)
        /\ UNCHANGED <<app, runResult, panicked, counter, calls, frameLabel, wiz, wizOps>>

app_default ==
    /\ ~panicked
    /\ ~app.init
    /\ app' = App_default(app)
    /\ alast' = ACall("App::default", "none", "none")
    /\ UNCHANGED <<runResult, panicked, callback, counter, calls, frameLabel,
                   wizards, wiz, wiz_c, wizOps>>

\* app.run()
run ==
    LET r == App_run(app)
    IN  /\ ~panicked
        /\ app' = r.app
        /\ runResult' = IF r.ret = NoResult THEN runResult ELSE r.ret
        /\ panicked' = r.abort
        /\ alast' = ACall("run", "none", "none")
        /\ UNCHANGED <<callback, counter, calls, frameLabel, wizards, wiz, wiz_c, wizOps>>

\* app.run().unwrap()
run_unwrap ==
    LET r == App_run(app)
    IN  /\ ~panicked
        /\ app' = r.app
        /\ runResult' = IF r.ret = NoResult THEN runResult ELSE r.ret
        /\ panicked' = (r.abort \/ unwrap_panics(r.ret))
        /\ alast' = ACall("run_unwrap", "none", "none")
        /\ UNCHANGED <<callback, counter, calls, frameLabel, wizards, wiz, wiz_c, wizOps>>

\* The last window closes: the loop ends and the run call that started it
\* returns Ok(()).
LoopEnds ==
    /\ ~panicked
    /\ app.loop = "running"
    /\ app' = [app EXCEPT !.loop = "done"]
    /\ runResult' = Ok
    /\ alast' = ACall("loop_ends", "none", "none")
    /\ UNCHANGED <<panicked, callback, counter, calls, frameLabel, wizards, wiz,
                   wiz_c, wizOps>>

(***************************************************************************)
(* The label strings of a menu item.  A text is a sequence of bytes; an    *)
(* allocation records its bytes, what made it and every release of it.     *)
(***************************************************************************)
MaxAllocs == 4

MaxHandles == 2

MaxHeld == 2

MaxFrees == 2

\* The texts offered to set_label: "F", "Ed", and "F\0E" with an embedded NUL
Texts == { <<70>>, <<69, 100>>, <<70, 0, 69>> }

HasNul(txt) == \E i \in 1..Len(txt) : txt[i] = 0

\* std::ffi::NulError: the position of the first NUL byte
NulError(txt) ==
    [tag |-> "NulError",
     pos |-> (CHOOSE i \in 1..Len(txt) : txt[i] = 0 /\ \A j \in 1..(i - 1) : txt[j] # 0) - 1]

\* impl From<std::ffi::NulError> for FltkError
From_NulError(err) == [tag |-> "NullError", err |-> err]

\* CString::new: the bytes with a terminator appended, or NulError
CString_new(txt) ==
    IF HasNul(txt) THEN Err(NulError(txt))
                   ELSE [tag |-> "Ok", val |-> txt \o <<0>>]

\* CString::into_string: the bytes before the terminator
into_string(bytes) == SubSeq(bytes, 1, Len(bytes) - 1)

Alloc(hp, bytes, origin) ==
    Append(hp, [bytes |-> bytes, origin |-> origin, freedBy |-> <<>>])

\* The allocation at address a is released (once more) by `who`.
Free(hp, a, who) == [hp EXCEPT ![a].freedBy = Append(@, who)]

Live(hp, a) == hp[a].freedBy = <<>>

\* MenuItem { _inner, _title }: the item as its menu hands it out, the native
\* label pointing at the owned title.
NewMenuItem == [_inner |-> 1, _title |-> 1, dropped |-> FALSE]

NewHeap == <<[bytes |-> <<70, 0>>, origin |-> "get_item", freedBy |-> <<>>]>>

\* The releases of address a made or still to be made by Strings of label()
LabelReleases(a) ==
    Cardinality({i \in 1..Len(heap[a].freedBy) : heap[a].freedBy[i] = "label"})
        + Cardinality({i \in 1..Len(held) : held[i] = a})

\* What a MenuItem string call gave back: a value, nothing, a panic, or the
\* outcome of reading released memory.
Returned(v) == [tag |-> "Ok", val |-> v]

Panicked == [tag |-> "Panic"]

Undefined == [tag |-> "Undefined"]

RemoveAt(seq, i) == SubSeq(seq, 1, i - 1) \o SubSeq(seq, i + 1, Len(seq))

TCall(op, h, arg, ret) ==
    [op |-> op, h |-> h, arg |-> arg, ret |-> ret, text0 |-> Fl_Menu_Item_label(item)]

\* What a MenuItem string call leaves alone.
TitleFrame ==
    UNCHANGED <<flags0, valOp, visOp, mlast, geomVars, app, runResult, callback,
                counter, calls, frameLabel, wizards, wiz, wiz_c, wizOps, alast>>

\* MenuItem::label: CString::from_raw takes ownership of the string the
\* native item points to; the String made of it is returned to the caller,
\* who owns the allocation from then on.
label(h) ==
    LET p == Fl_Menu_Item_label(item)
    IN  /\ ~panicked
        /\ ~handles[h].dropped
        /\ Len(held) < MaxHeld
        /\ LabelReleases(p) < MaxFrees
        /\ held' = Append(held, p)
        /\ tlast' = TCall("label", h, <<>>,
                          IF Live(heap, p) THEN Returned(into_string(heap[p].bytes))
                                           ELSE Undefined)
        /\ UNCHANGED <<item, heap, handles, panicked>>
        /\ TitleFrame

\* The caller drops a String that label() returned.
drop_string(i) ==
    /\ ~panicked
    /\ heap' = Free(heap, held[i], "label")
    /\ held' = RemoveAt(held, i)
    /\ tlast' = TCall("drop_string", 0, held[i], Ok)
    /\ UNCHANGED <<item, handles, panicked>>
    /\ TitleFrame

\* MenuItem::set_label: CString::new(txt).unwrap(), the pointer handed to the
\* native item, and the CString dropped at the end of the block.
set_label_item(h, txt) ==
    LET r == CString_new(txt)
        a == Len(heap) + 1
    IN  /\ ~panicked
        /\ ~handles[h].dropped
        /\ IF unwrap_panics(r)
           THEN /\ panicked' = TRUE
                /\ tlast' = TCall("set_label", h, txt, Panicked)
                /\ UNCHANGED <<item, heap>>
           ELSE /\ Len(heap) < MaxAllocs
                /\ item' = Fl_Menu_Item_set_label(item, a)
                /\ heap' = Free(Alloc(heap, r.val, "set_label"), a, "set_label")
                /\ tlast' = TCall("set_label", h, txt, Ok)
                /\ UNCHANGED panicked
        /\ UNCHANGED <<handles, held>>
        /\ TitleFrame

\* #[derive(Clone)] on MenuItem: the pointer is copied, the title is copied
\* into an allocation of its own.
clone_item(h) ==
    /\ ~panicked
    /\ ~handles[h].dropped
    /\ Len(handles) < MaxHandles
    /\ Len(heap) < MaxAllocs
    /\ heap' = Alloc(heap, heap[handles[h]._title].bytes, "clone")
    /\ handles' = Append(handles, [_inner |-> handles[h]._inner,
                                   _title |-> Len(heap) + 1, dropped |-> FALSE])
    /\ tlast' = TCall("clone", h, <<>>, Ok)
    /\ UNCHANGED <<item, held, panicked>>
    /\ TitleFrame

\* A MenuItem goes out of scope: its _title is dropped.
drop_item(h) ==
    /\ ~panicked
    /\ ~handles[h].dropped
    /\ heap' = Free(heap, handles[h]._title, "drop")
    /\ handles' = [handles EXCEPT ![h].dropped = TRUE]
    /\ tlast' = TCall("drop", h, <<>>, Ok)
    /\ UNCHANGED <<item, held, panicked>>
    /\ TitleFrame

(***************************************************************************)
(* The builder protocol: geometry of a widget under construction.          *)
(***************************************************************************)
MaxCoord == 1

\* The i32 arguments offered to with_pos and with_size
Coord == -1..MaxCoord

\* WidgetTrait::default(): zero geometry
DefaultGeom == [x |-> 0, y |-> 0, w |-> 0, h |-> 0]

\* The widget the builder calls refer to: wiz of show_wizard, after
\* Wizard::default().with_size(400, 300)
RefWidget == [x |-> 0, y |-> 0, w |-> 400, h |-> 300]

x(g) == g.x

y(g) == g.y

width(g) == g.w

height(g) == g.h

resize(g, px, py, pw, ph) == [g EXCEPT !.x = px, !.y = py, !.w = pw, !.h = ph]

with_pos(g, px, py) == resize(g, px, py, width(g), height(g))

\* with_size placing the widget at the origin
with_size_at_origin(g, pw, ph) == resize(g, 0, 0, pw, ph)

with_size(g, pw, ph) == resize(g, x(g), y(g), pw, ph)

size_of(g, other) == resize(g, x(g), y(g), width(other), height(other))

center_of(g, other) ==
    resize(g, x(other) + (width(other) - width(g)) \div 2,
              y(other) + (height(other) - height(g)) \div 2,
              width(g), height(g))

\* The two most recent builder calls, the latest first with the geometry it
\* was applied to.
NoGeom == [x |-> 0, y |-> 0, w |-> 0, h |-> 0]

GCall(op, a, b) ==
    <<[op |-> op, a |-> a, b |-> b, g0 |-> geom]>>
        \o (IF glast = <<>> THEN <<>> ELSE <<[glast[1] EXCEPT !.g0 = NoGeom]>>)

(***************************************************************************)
(* Specifications.                                                         *)
(***************************************************************************)
MenuInit(flagSet) ==
    /\ flags0 \in flagSet
    /\ item = NewItem(flags0)
    /\ valOp = "none"
    /\ visOp = "none"
    /\ mlast = [op |-> "new", arg |-> flags0]

AppInit ==
    /\ app = NewApp
    /\ runResult = NoResult
    /\ panicked = FALSE
    /\ callback = [w \in Buttons |-> "none"]
    /\ counter = 0
    /\ calls = 0
    /\ frameLabel = ""
    /\ wizards = <<NewWizard>>
    /\ wiz = [_inner |-> 1]
    /\ wiz_c = NoHandle
    /\ wizOps = <<>>
    /\ alast = [op |-> "none", w |-> "none", closure |-> "none", counter0 |-> 0,
                label0 |-> "", app0 |-> NewApp]

GeomInit ==
    /\ geom = DefaultGeom
    /\ glast = <<>>

TitleInit ==
    /\ heap = NewHeap
    /\ handles = <<NewMenuItem>>
    /\ held = <<>>
    /\ tlast = [op |-> "none", h |-> 0, arg |-> <<>>, ret |-> Ok, text0 |-> 1]

\* The label accessors of one menu item created with no flag set.
InitLabel == MenuInit({MenuFlag.Normal}) /\ AppInit /\ GeomInit /\ TitleInit

SetLabelType == \E typ \in LabelType : set_label_type(typ)
SetLabelColor == \E color \in Color : set_label_color(color)
SetLabelFont == \E font \in Font : set_label_font(font)
SetLabelSize == \E sz \in SizeInputs : set_label_size(sz)

NextLabel == SetLabelType \/ SetLabelColor \/ SetLabelFont \/ SetLabelSize

SpecLabel == InitLabel /\ [][NextLabel]_vars

\* The flag operations of one menu item created with any flag combination.
InitFlags == MenuInit(FlagCombinations) /\ AppInit /\ GeomInit /\ TitleInit

Set == set
Clear == clear
Active == active
Activate == activate
Deactivate == deactivate
Show == show
Hide == hide

NextFlags == Set \/ Clear \/ Active \/ Activate \/ Deactivate \/ Show \/ Hide

SpecFlags == InitFlags /\ [][NextFlags]_vars

\* The application: initialization, the event loop, callbacks, the wizard.
InitApp == MenuInit({MenuFlag.Normal}) /\ AppInit /\ GeomInit /\ TitleInit

AppDefault == app_default /\ UNCHANGED <<menuVars, geomVars>>
Run == run /\ UNCHANGED <<menuVars, geomVars>>
RunUnwrap == run_unwrap /\ UNCHANGED <<menuVars, geomVars>>
SetCallback == \E r \in Registrations : set_callback(r[1], r[2]) /\ UNCHANGED <<menuVars, geomVars>>
DoCallback == \E w \in Buttons : do_callback(w) /\ UNCHANGED <<menuVars, geomVars>>
Trigger == \E w \in Buttons : trigger(w) /\ UNCHANGED <<menuVars, geomVars>>
Quit == LoopEnds /\ UNCHANGED <<menuVars, geomVars>>

NextApp == AppDefault \/ Run \/ RunUnwrap \/ SetCallback \/ DoCallback \/ Trigger \/ Quit

SpecApp == InitApp /\ [][NextApp]_vars

\* The builder calls on one widget, from its default construction.
InitGeom == MenuInit({MenuFlag.Normal}) /\ AppInit /\ GeomInit /\ TitleInit

WithPos ==
    \E px \in Coord, py \in Coord :
        /\ geom' = with_pos(geom, px, py)
        /\ glast' = GCall("with_pos", px, py)
        /\ UNCHANGED <<menuVars, appVars>>

WithSize ==
    \E pw \in Coord, ph \in Coord :
        /\ geom' = with_size(geom, pw, ph)
        /\ glast' = GCall("with_size", pw, ph)
        /\ UNCHANGED <<menuVars, appVars>>

SizeOf ==
    /\ geom' = size_of(geom, RefWidget)
    /\ glast' = GCall("size_of", 0, 0)
    /\ UNCHANGED <<menuVars, appVars>>

CenterOf ==
    /\ geom' = center_of(geom, RefWidget)
    /\ glast' = GCall("center_of", 0, 0)
    /\ UNCHANGED <<menuVars, appVars>>

NextGeom == WithPos \/ WithSize \/ SizeOf \/ CenterOf

SpecGeom == InitGeom /\ [][NextGeom]_vars

\* The label string of one menu item: label, set_label, clone and drop.
InitTitle == MenuInit({MenuFlag.Normal}) /\ AppInit /\ GeomInit /\ TitleInit

Label == \E h \in 1..Len(handles) : label(h)
DropString == \E i \in 1..Len(held) : drop_string(i)
SetLabel == \E h \in 1..Len(handles), txt \in Texts : set_label_item(h, txt)
CloneItem == \E h \in 1..Len(handles) : clone_item(h)
DropItem == \E h \in 1..Len(handles) : drop_item(h)

NextTitle == Label \/ DropString \/ SetLabel \/ CloneItem \/ DropItem

SpecTitle == InitTitle /\ [][NextTitle]_vars

(***************************************************************************)
(* Properties.                                                             *)
(***************************************************************************)

\* C1: for every Font f, set_label_font(f) followed by label_font() returns
\* exactly f.
C1_FontRoundTrip ==
    mlast.op = "set_label_font" => label_font(item) = {mlast.arg}

\* C2: for every Color c, set_label_color(c) followed by label_color()
\* returns exactly c.
C2_ColorRoundTrip ==
    mlast.op = "set_label_color" => label_color(item) = {mlast.arg}

C2_Witness ==
    /\ mlast.op = "set_label_color"
    /\ mlast.arg = "Red"
    /\ label_color(item) = {"Red"}

\* The sizes the claim names: 0, 1 and 255.
ClaimSizes == {Usize(0), Usize(1), Usize(255)}

\* C3: for s in {0, 1, 255}, set_label_size(s) stores s narrowed to a 32-bit
\* signed integer and label_size() widens it back to exactly s.
C3_SizeRoundTrip ==
    (mlast.op = "set_label_size" /\ mlast.arg \in ClaimSizes) =>
        /\ Len(Fl_Menu_Item_label_size(item)) = 2
        /\ label_size(item) = mlast.arg

C3_Witness ==
    /\ mlast.op = "set_label_size"
    /\ mlast.arg = Usize(255)
    /\ label_size(item) = Usize(255)

\* C4: after any sequence of set, clear, show and hide on an item created
\* with any flag combination, value() is true exactly when the most recent of
\* set/clear was set (or neither was called and the item started with Value),
\* visible() is true exactly when the most recent of show/hide was show (or
\* neither was called and the item started without Invisible); set/clear
\* leave visible() and show/hide leave value() as they were.
C4_ValueVisible ==
    /\ value(item) <=>
          \/ valOp = "set"
          \/ valOp = "none" /\ BitAnd(flags0, MenuFlag.Value) # 0
    /\ value(item) <=> BitAnd(item.flags, MenuFlag.Value) # 0
    /\ visible(item) <=>
          \/ visOp = "show"
          \/ visOp = "none" /\ BitAnd(flags0, MenuFlag.Invisible) = 0
    /\ visible(item) <=> BitAnd(item.flags, MenuFlag.Invisible) = 0
    /\ mlast.op \in {"set", "clear"} => visible(item) = visible(mlast.arg)
    /\ mlast.op \in {"show", "hide"} => value(item) = value(mlast.arg)

C4_Witness ==
    /\ BitAnd(flags0, MenuFlag.Value) # 0
    /\ BitAnd(flags0, MenuFlag.Invisible) # 0
    /\ BitAnd(flags0, MenuFlag.Submenu) # 0
    /\ valOp = "clear"
    /\ visOp = "show"
    /\ mlast.op = "show"
    /\ ~value(item)
    /\ visible(item)

IsDispatch(call) == call.op \in {"do_callback", "trigger"}

\* C5: once the counting closure is registered, every do_callback (by the
\* program or by the event loop) runs it exactly once before returning: the
\* captured counter equals the number of such calls, is one more than before
\* right after each, and no other call changes it.
C5_CallbackOncePerCall ==
    /\ counter = calls
    /\ (IsDispatch(alast) /\ alast.closure = "Count") => counter = alast.counter0 + 1
    /\ ~(IsDispatch(alast) /\ alast.closure = "Count") => counter = alast.counter0

C5_Witness ==
    /\ alast.op = "do_callback"
    /\ alast.closure = "Count"
    /\ calls = 2
    /\ counter = 2

\* C6: the clone wiz_c refers to the native object wiz refers to; no native
\* object is created by clone, and a next() made through the clone is read
\* through wiz.
C6_CloneSharesNative ==
    wiz_c # NoHandle =>
        /\ wiz_c._inner = wiz._inner
        /\ Len(wizards) = 1
        /\ ActiveChild(wiz) = ActiveChild(wiz_c)
        /\ (IsDispatch(alast) /\ alast.closure = "Next" /\ wizOps = <<"next">>)
               => ActiveChild(wiz) = 1

C6_Witness ==
    /\ wiz_c # NoHandle
    /\ IsDispatch(alast)
    /\ alast.closure = "Next"
    /\ wizOps = <<"next">>
    /\ ActiveChild(wiz) = 1

\* A run call that finds the toolkit uninitialized or the loop started before.
RunCannotStart(call) ==
    call.op = "run" /\ (~call.app0.init \/ call.app0.loop # "idle")

\* C7: starting the event loop a second time, or before initialization,
\* returns FltkError::Internal(FailedToRun) and does not panic or abort.
C7_RunFailsWithError ==
    RunCannotStart(alast) =>
        /\ runResult = Err(Internal("FailedToRun"))
        /\ description(runResult.err) = "Failed to run FLTK!"
        /\ ~panicked
        /\ app = alast.app0

C7_Witness ==
    /\ alast.op = "run"
    /\ alast.app0.init
    /\ alast.app0.loop = "done"
    /\ runResult = Err(Internal("FailedToRun"))
    /\ ~panicked

\* C8: in the two-page wizard, page 1 (index 0) is visible at first; after
\* one "next" the visible child is index 1 and page 1 is hidden; after a
\* following "previous" it is index 0 again; exactly one page is visible at
\* every step.
C8_WizardPages ==
    LET wz == wizards[wiz._inner]
    IN  /\ Cardinality(VisiblePages(wz)) = 1
        /\ wizOps = <<>> => ActiveChild(wiz) = 0
        /\ wizOps = <<"next">> => (ActiveChild(wiz) = 1 /\ ~wz.visible[1])
        /\ wizOps = <<"next", "prev">> => ActiveChild(wiz) = 0

C8_Witness ==
    /\ wizOps = <<"next", "prev">>
    /\ ActiveChild(wiz) = 0
    /\ wizards[wiz._inner].visible = <<TRUE, FALSE>>

\* C9: with the button's callback set to frame.set_label("Hello world"), the
\* frame's label is exactly "Hello world" after the trigger fires (by the
\* event loop or by do_callback), and registering the callback leaves the
\* label as it was.
C9_HelloWorld ==
    /\ (IsDispatch(alast) /\ alast.closure = "Hello") => frameLabel = "Hello world"
    /\ alast.op = "set_callback" => frameLabel = alast.label0

C9_Witness ==
    /\ alast.op = "trigger"
    /\ alast.w = "hello.but"
    /\ alast.closure = "Hello"
    /\ alast.label0 = ""
    /\ frameLabel = "Hello world"

\* C10: with_size(w, h) makes width() = w and height() = h and leaves x(), y();
\* with_pos(x, y) makes x() = x and y() = y and leaves width(), height();
\* chained in either order they yield all four values.
C10_BuilderRoundTrip ==
    /\ (glast # <<>> /\ glast[1].op = "with_size") =>
          /\ width(geom) = glast[1].a /\ height(geom) = glast[1].b
          /\ x(geom) = x(glast[1].g0) /\ y(geom) = y(glast[1].g0)
    /\ (glast # <<>> /\ glast[1].op = "with_pos") =>
          /\ x(geom) = glast[1].a /\ y(geom) = glast[1].b
          /\ width(geom) = width(glast[1].g0) /\ height(geom) = height(glast[1].g0)
    /\ (Len(glast) = 2 /\ glast[1].op = "with_pos" /\ glast[2].op = "with_size") =>
          geom = [x |-> glast[1].a, y |-> glast[1].b, w |-> glast[2].a, h |-> glast[2].b]
    /\ (Len(glast) = 2 /\ glast[1].op = "with_size" /\ glast[2].op = "with_pos") =>
          geom = [x |-> glast[2].a, y |-> glast[2].b, w |-> glast[1].a, h |-> glast[1].b]

C10_Witness ==
    /\ Len(glast) = 2
    /\ glast[1].op = "with_size"
    /\ glast[2].op = "with_pos"
    /\ geom = [x |-> 1, y |-> -1, w |-> -1, h |-> 1]

\* C14: each MenuItem setter changes only its own field: set_label_font
\* leaves label_color() and label_size() as they were, set_label_color leaves
\* label_font() and label_size(), and set_label_size leaves label_color() and
\* label_font().
C14_SettersChangeOwnField ==
    /\ mlast.op = "set_label_font" =>
          /\ label_color(item) = label_color(mlast.before)
          /\ label_size(item) = label_size(mlast.before)
    /\ mlast.op = "set_label_color" =>
          /\ label_font(item) = label_font(mlast.before)
          /\ label_size(item) = label_size(mlast.before)
    /\ mlast.op = "set_label_size" =>
          /\ label_color(item) = label_color(mlast.before)
          /\ label_font(item) = label_font(mlast.before)

\* The part of C14 about set_label_color and set_label_size alone.
C14_ColorAndSizeSetters ==
    /\ mlast.op = "set_label_color" =>
          /\ label_font(item) = label_font(mlast.before)
          /\ label_size(item) = label_size(mlast.before)
    /\ mlast.op = "set_label_size" =>
          /\ label_color(item) = label_color(mlast.before)
          /\ label_font(item) = label_font(mlast.before)

\* C11: once set_label(txt) has returned, and after any later MenuItem
\* operations, the string the native item's label pointer refers to has not
\* been freed.
C11_LabelStringAlive ==
    heap[Fl_Menu_Item_label(item)].origin = "set_label"
        => Live(heap, Fl_Menu_Item_label(item))

\* C12: set_label with a text holding an embedded NUL gives the caller the
\* invalid-string error, does not panic, and leaves the item's label as it
\* was.
C12_NulSurfacesError ==
    (tlast.op = "set_label" /\ HasNul(tlast.arg)) =>
        /\ tlast.ret = Err(From_NulError(NulError(tlast.arg)))
        /\ ~panicked
        /\ Fl_Menu_Item_label(item) = tlast.text0

\* C13: over any sequence of label(), set_label(), clone() and drop, no
\* string allocation is freed twice, and label() does not free the string the
\* native item still points to.
C13_ReleasedOnce ==
    /\ \A a \in 1..Len(heap) : Len(heap[a].freedBy) <= 1
    /\ \A i \in 1..Len(heap[Fl_Menu_Item_label(item)].freedBy) :
          heap[Fl_Menu_Item_label(item)].freedBy[i] # "label"

\* The first part of C13 alone: no allocation is freed twice.
C13_NoDoubleFree == \A a \in 1..Len(heap) : Len(heap[a].freedBy) <= 1

====
